---- MODULE Spec2Model ----
(***************************************************************************)
(* createCommit of commit-ts (src/unnamed/part_000): one commit built      *)
(* through the GitHub git-data API, with base resolution, tree building    *)
(* and the update-or-create ref protocol.                                  *)
(*                                                                         *)
(* The remote repository (refs, commits, trees) is the environment; an     *)
(* invocation is a sequence of steps, one per awaited remote call.         *)
(***************************************************************************)
EXTENDS Naturals, Sequences, FiniteSets, TLC

\* ------------------------------------------------------------------ bounds

\* longest list of paths in opts.files and in opts.deletedFiles
MaxFiles == 1

\* number of invocations of createCommit in a run: the first takes any
\* request, each following one repeats it after a returned Result
MaxInvocations == 2

Procs == 1..MaxInvocations

\* most paths (files and deletedFiles together) of a request of SpecTree
MaxTreePaths == 2

\* --------------------------------------------------------------- the inputs

\* local paths a request may name in the runs of Spec
Paths == {"a.txt", "gone.txt"}

\* the paths of the runs that build tree entries: regular files, a missing
\* path, plain directories and submodule mount points
TreePaths ==
  {"a.txt", "run.sh", "gone.txt", "docs", "repo", "odd", "sub", "subnoref",
   "subnopack"}

\* a file on disk: whether it exists and, for a text file, its content as
\* tokens (words, and the white space " " and "\n" between them)
Absent == [exists |-> FALSE, text |-> <<>>]

Text(tokens) == [exists |-> TRUE, text |-> tokens]

\* <dir>/.git: "missing", a directory "dir", or a "file" with its content
DotGit(kind, tokens) == [kind |-> kind, text |-> tokens]

\* stat() of a path and what lies under it: kind "file" | "dir" | "missing",
\* the POSIX mode, the content of a regular file, the .git child of a
\* directory
FS(filePath) ==
  CASE filePath = "a.txt" ->
         [kind |-> "file", mode |-> 33188, content |-> "hello",
          dotGit |-> DotGit("missing", <<>>)]
    [] filePath = "run.sh" ->
         [kind |-> "file", mode |-> 33261, content |-> "#!/bin/sh",
          dotGit |-> DotGit("missing", <<>>)]
    [] filePath = "work/a.txt" ->
         [kind |-> "file", mode |-> 33261, content |-> "draft",
          dotGit |-> DotGit("missing", <<>>)]
    [] filePath = "work/gone.txt" ->
         [kind |-> "file", mode |-> 33188, content |-> "kept",
          dotGit |-> DotGit("missing", <<>>)]
    [] filePath = "docs" ->
         [kind |-> "dir", mode |-> 16877, content |-> "",
          dotGit |-> DotGit("missing", <<>>)]
    [] filePath = "repo" ->
         [kind |-> "dir", mode |-> 16877, content |-> "",
          dotGit |-> DotGit("dir", <<>>)]
    [] filePath = "odd" ->
         [kind |-> "dir", mode |-> 16877, content |-> "",
          dotGit |-> DotGit("file", <<"worktree", " ", "of", " ", "x", "\n">>)]
    [] filePath \in {"sub", "subnopack"} ->
         [kind |-> "dir", mode |-> 16877, content |-> "",
          dotGit |-> DotGit("file", <<"gitdir:", " ", "modules", "\n">>)]
    [] filePath = "subnoref" ->
         [kind |-> "dir", mode |-> 16877, content |-> "",
          dotGit |-> DotGit("file", <<"gitdir:", " ", "/srv/modules", "\n">>)]
    [] OTHER ->
         [kind |-> "missing", mode |-> 0, content |-> "",
          dotGit |-> DotGit("missing", <<>>)]

RECURSIVE SeqsUpTo(_, _)
SeqsUpTo(S, n) ==
  IF n = 0 THEN {<<>>}
  ELSE LET shorter == SeqsUpTo(S, n - 1)
       IN  shorter \cup {Append(s, x) : s \in shorter, x \in S}

PathLists == SeqsUpTo(Paths, MaxFiles)

\* the branches of the remote; "main" is the default branch, "feat" does not
\* exist at first
Branches == {"main", "feat"}

DefaultBranchName == "main"

\* Options: an unset optional boolean is FALSE, an unset list is <<>>, an
\* unset string is "", an unset SHA is 0 (all falsy in the source's tests)
Options ==
  [owner : {"", "o"}, repo : {"", "r"}, branch : {""} \cup Branches,
   message : {"", "msg"}, rootDir : {""}, empty : BOOLEAN, files : PathLists,
   baseSHA : {0, 1}, baseBranch : {""} \cup Branches, noParent : BOOLEAN,
   deletedFiles : PathLists, deleteIfNotExist : BOOLEAN, forcePush : BOOLEAN]

\* the requests of SpecTree: every kind of path, added or deleted, with and
\* without deleteIfNotExist and empty, on an existing and on a new branch
TreeOptions ==
  {o \in [owner : {"o"}, repo : {"r"}, branch : Branches, message : {"msg"},
          rootDir : {""}, empty : BOOLEAN,
          files : SeqsUpTo(TreePaths, MaxTreePaths), baseSHA : {0},
          baseBranch : {""}, noParent : {FALSE},
          deletedFiles : SeqsUpTo(TreePaths, MaxTreePaths),
          deleteIfNotExist : BOOLEAN, forcePush : {FALSE}] :
     Len(o.files) + Len(o.deletedFiles) <= MaxTreePaths}

\* the requests of SpecConc: complete requests without forcePush, with every
\* choice of base and of parent, with and without a tree of their own
ConcOptions ==
  [owner : {"o"}, repo : {"r"}, branch : Branches, message : {"msg"},
   rootDir : {""}, empty : BOOLEAN, files : {<<"a.txt">>}, baseSHA : {0, 1},
   baseBranch : {""} \cup Branches, noParent : BOOLEAN, deletedFiles : {<<>>},
   deleteIfNotExist : {FALSE}, forcePush : {FALSE}]

\* the paths and the root directories of the requests of SpecRoot: under
\* "work", a.txt is another file and gone.txt exists, docs does not
RootPaths == {"a.txt", "gone.txt", "docs"}

RootDirs == {"", "work"}

\* the requests of SpecRoot: lists of additions and deletions located from
\* the working directory or from a root directory
RootOptions ==
  {o \in [owner : {"o"}, repo : {"r"}, branch : Branches, message : {"msg"},
          rootDir : RootDirs, empty : BOOLEAN,
          files : SeqsUpTo(RootPaths, MaxTreePaths), baseSHA : {0},
          baseBranch : {""}, noParent : {FALSE},
          deletedFiles : SeqsUpTo(RootPaths, MaxTreePaths),
          deleteIfNotExist : BOOLEAN, forcePush : {FALSE}] :
     Len(o.files) + Len(o.deletedFiles) <= MaxTreePaths}

NoOptions ==
  [owner |-> "", repo |-> "", branch |-> "", message |-> "", rootDir |-> "",
   empty |-> FALSE, files |-> <<>>, baseSHA |-> 0, baseBranch |-> "",
   noParent |-> FALSE, deletedFiles |-> <<>>, deleteIfNotExist |-> FALSE,
   forcePush |-> FALSE]

\* ------------------------------------------------------------ error values

\* a thrown value: whether it is a non-null object, whether its message is a
\* string, the message as its words, and the fs error code
ErrorValue(name, isObject, hasMessage, message, code) ==
  [name |-> name, isObject |-> isObject, hasMessage |-> hasMessage,
   message |-> message, code |-> code]

NoError == ErrorValue("none", FALSE, FALSE, <<>>, "")

\* new Error(msg)
NewError(name, message) == ErrorValue(name, TRUE, TRUE, message, "")

\* what the GitHub client throws: the API message, then the documentation URL
RefNotExistError ==
  NewError("RefNotExist", <<"Reference", "does", "not", "exist", "-", "docs-url">>)

RefExistsError ==
  NewError("RefExists", <<"Reference", "already", "exists", "-", "docs-url">>)

NotFastForwardError ==
  NewError("NotFastForward", <<"Update", "is", "not", "a", "fast", "forward", "-", "docs-url">>)

ForbiddenError ==
  NewError("Forbidden", <<"Resource", "not", "accessible", "by", "integration">>)

\* a rejection that is not an object at all (a thrown string)
ThrownString == ErrorValue("ThrownString", FALSE, FALSE, <<>>, "")

\* what stat() and readFile() throw for a path that does not exist
ENOENTError ==
  ErrorValue("ENOENT", TRUE, TRUE, <<"ENOENT:", "no", "such", "file", "or", "directory">>, "ENOENT")

FaultError(fault) ==
  IF fault = "ThrownString" THEN ThrownString ELSE ForbiddenError

\* String.prototype.includes on messages taken as sequences of words
Includes(message, pattern) ==
  \E i \in 0..Len(message) :
    /\ i + Len(pattern) <= Len(message)
    /\ SubSeq(message, i + 1, i + Len(pattern)) = pattern

\* --------------------------------------------------------- the file system

Bit(n, k) == (n \div (2 ^ k)) % 2 = 1

\* (mutant of getFileMode) only the owner's execute bit is looked at
getFileMode_OwnerExecuteOnly(mode) ==
  LET type == ((mode \div 4096) % 16) * 4096
      perm == mode % 512
  IN  CASE type = 32768 -> IF Bit(perm, 6) THEN "100755" ELSE "100644"
        [] type = 16384 -> "040000"
        [] type = 57344 -> "160000"
        [] type = 40960 -> "120000"
        [] OTHER -> "100644"

\* getFileMode: mode & 0o170000 selects the type, mode & 0o777 the
\* permissions, perm & 0o111 the three execute bits
getFileMode(mode) ==
  LET type == ((mode \div 4096) % 16) * 4096
      perm == mode % 512
  IN  CASE type = 32768 ->
             IF Bit(perm, 0) \/ Bit(perm, 3) \/ Bit(perm, 6)
             THEN "100755" ELSE "100644"
        [] type = 16384 -> "040000"
        [] type = 57344 -> "160000"
        [] type = 40960 -> "120000"
        [] OTHER -> "100644"

getFileType(mode) ==
  CASE mode = "100644" -> "blob"
    [] mode = "100755" -> "blob"
    [] mode = "040000" -> "tree"
    [] mode = "160000" -> "commit"
    [] mode = "120000" -> "blob"

\* a File of the source; an absent field is "undefined", a null sha "null"
File(filePath, content, sha, mode, type) ==
  [path |-> filePath, content |-> content, sha |-> sha, mode |-> mode,
   type |-> type]

NoFile == File("", "undefined", "undefined", "", "undefined")

Returned(file) == [ok |-> TRUE, file |-> file, error |-> NoError]

Thrown(error) == [ok |-> FALSE, file |-> NoFile, error |-> error]

\* path.join(opts.rootDir || "", filePath)
pathJoin(rootDir, filePath) ==
  IF rootDir = "" THEN filePath ELSE rootDir \o "/" \o filePath

\* ---- strings, as sequences of tokens

IsSpace(token) == token \in {" ", "\n", "\t"}

RECURSIVE trimStart(_)
trimStart(text) ==
  IF text # <<>> /\ IsSpace(Head(text)) THEN trimStart(Tail(text)) ELSE text

RECURSIVE trimEnd(_)
trimEnd(text) ==
  IF text # <<>> /\ IsSpace(text[Len(text)])
  THEN trimEnd(SubSeq(text, 1, Len(text) - 1))
  ELSE text

\* String.prototype.trim
trim(text) == trimEnd(trimStart(text))

\* String.prototype.startsWith
startsWith(text, prefix) ==
  Len(text) >= Len(prefix) /\ SubSeq(text, 1, Len(prefix)) = prefix

\* String.prototype.slice(n), n counted in tokens
slice(text, n) == SubSeq(text, n + 1, Len(text))

\* the string a sequence of tokens spells
RECURSIVE join(_)
join(text) == IF text = <<>> THEN "" ELSE Head(text) \o join(Tail(text))

\* String.prototype.split(sep): the fields between the separators
RECURSIVE split(_, _)
split(text, sep) ==
  IF \A i \in 1..Len(text) : text[i] # sep
  THEN <<join(text)>>
  ELSE LET i == CHOOSE k \in 1..Len(text) :
                  text[k] = sep /\ \A j \in 1..(k - 1) : text[j] # sep
       IN  <<join(SubSeq(text, 1, i - 1))>>
             \o split(SubSeq(text, i + 1, Len(text)), sep)

\* String.prototype.split(sep, limit): at most limit fields, the rest dropped
splitLimit(text, sep, limit) ==
  LET fields == split(text, sep)
  IN  SubSeq(fields, 1, IF Len(fields) < limit THEN Len(fields) ELSE limit)

\* ---- a git directory of a submodule

\* packed-refs: absent, or its lines (content.split("\n")), each as tokens
NoPackedRefs == [exists |-> FALSE, lines |-> <<>>]

PackedRefs(lines) == [exists |-> TRUE, lines |-> lines]

\* the one ref HEAD may name that can have a loose file
MainRef == "refs/heads/main"

\* a git directory: HEAD, the loose file of MainRef, packed-refs
GitDir(head, loose, packed) ==
  [HEAD |-> head, loose |-> loose, packed |-> packed]

SymbolicHEAD == Text(<<"ref:", " ", MainRef, "\n">>)

GitDirAt(gitDir) ==
  CASE gitDir = "sub/modules" ->
         GitDir(SymbolicHEAD, Text(<<"2222", "\n">>),
                PackedRefs(<<<<"3333", " ", MainRef>>>>))
    [] gitDir = "/srv/modules" ->
         GitDir(SymbolicHEAD, Absent,
                PackedRefs(<<<<"#", " ", "pack-refs", " ", "with:", " ", "peeled">>,
                             <<"4444", " ", "refs/heads/main2">>>>))
    [] OTHER -> GitDir(SymbolicHEAD, Absent, NoPackedRefs)

\* a SHA returned, or an error thrown, by the functions that resolve HEAD
ReturnedSHA(sha) == [ok |-> TRUE, sha |-> sha, error |-> NoError]

ThrownSHA(error) == [ok |-> FALSE, sha |-> "undefined", error |-> error]

\* new Error(`ref ${ref} not found in packed-refs`)
PackedRefNotFoundError(ref) ==
  NewError("PackedRefNotFound", <<"ref", ref, "not", "found", "in", "packed-refs">>)

\* the loop of resolvePackedRef: lines that start with "#" or are blank are
\* skipped; the first line whose second field is ref gives its first field
RECURSIVE findPackedRef(_, _)
findPackedRef(lines, ref) ==
  IF lines = <<>> THEN ThrownSHA(PackedRefNotFoundError(ref))
  ELSE LET line == Head(lines)
           fields == splitLimit(line, " ", 2)
           packedRef == IF Len(fields) >= 2 THEN fields[2] ELSE "undefined"
       IN  IF startsWith(line, <<"#">>) \/ trim(line) = <<>>
           THEN findPackedRef(Tail(lines), ref)
           ELSE IF packedRef = ref THEN ReturnedSHA(fields[1])
           ELSE findPackedRef(Tail(lines), ref)

\* resolvePackedRef: readFile of packed-refs throws if it is absent
resolvePackedRef(gitDir, ref) ==
  IF ~gitDir.packed.exists THEN ThrownSHA(ENOENTError)
  ELSE findPackedRef(gitDir.packed.lines, ref)

\* readFile(path.join(gitDir, ref)): only MainRef may have a loose file
looseRef(gitDir, ref) == IF ref = MainRef THEN gitDir.loose ELSE Absent

\* (mutant of resolveGitHEAD) packed-refs asked before the loose ref file
resolveGitHEAD_PackedFirst(gitDir) ==
  LET content == trim(gitDir.HEAD.text)
      ref == join(slice(content, 2))
      packed == resolvePackedRef(gitDir, ref)
  IN  IF ~gitDir.HEAD.exists THEN ThrownSHA(ENOENTError)
      ELSE IF ~startsWith(content, <<"ref:", " ">>) THEN ReturnedSHA(join(content))
      ELSE IF packed.ok THEN packed
      ELSE IF looseRef(gitDir, ref).exists
      THEN ReturnedSHA(join(trim(looseRef(gitDir, ref).text)))
      ELSE packed

\* resolveGitHEAD: a detached HEAD is the SHA; a symbolic one is resolved
\* through the loose ref file and, if that cannot be read, packed-refs
resolveGitHEAD(gitDir) ==
  LET content == trim(gitDir.HEAD.text)
      ref == join(slice(content, 2))
  IN  IF ~gitDir.HEAD.exists THEN ThrownSHA(ENOENTError)
      ELSE IF ~startsWith(content, <<"ref:", " ">>) THEN ReturnedSHA(join(content))
      ELSE IF looseRef(gitDir, ref).exists
      THEN ReturnedSHA(join(trim(looseRef(gitDir, ref).text)))
      ELSE resolvePackedRef(gitDir, ref)

\* content.match(/^gitdir:\s*(.+)$/): "gitdir:", white space, then a rest
\* that is not empty and holds no line break; the rest is match[1]
matchGitdir(content) ==
  LET rest == trimStart(slice(content, 1))
  IN  IF /\ startsWith(content, <<"gitdir:">>)
         /\ rest # <<>>
         /\ \A i \in 1..Len(rest) : rest[i] # "\n"
      THEN [matched |-> TRUE, dir |-> join(rest)]
      ELSE [matched |-> FALSE, dir |-> ""]

AbsolutePaths == {"/srv/modules"}

\* path.isAbsolute(dir) ? dir : path.resolve(dirPath, dir)
pathResolve(dirPath, dir) ==
  IF dir \in AbsolutePaths THEN dir ELSE dirPath \o "/" \o dir

\* getSubmoduleCommitSHA: undefined unless .git is a file that holds a gitdir
\* line; then HEAD of the git directory it names
getSubmoduleCommitSHA(dirPath) ==
  LET dotGit == FS(dirPath).dotGit
      match == matchGitdir(trim(dotGit.text))
  IN  IF dotGit.kind # "file" THEN ReturnedSHA("undefined")
      ELSE IF ~match.matched THEN ReturnedSHA("undefined")
      ELSE resolveGitHEAD(GitDirAt(pathResolve(dirPath, match.dir)))

\* ---- getFileContentAndMode

\* the File of a missing path under deleteIfNotExist
DeletionMarker(filePath) ==
  File(filePath, "undefined", "null", "100644", getFileType("100644"))

\* the File of a directory: a submodule link if getSubmoduleCommitSHA returned
\* a SHA, a tree if it returned undefined; what it threw is thrown on
directoryFile(filePath, commitSHA) ==
  IF ~commitSHA.ok THEN Thrown(commitSHA.error)
  ELSE IF commitSHA.sha # "undefined"
  THEN Returned(File(filePath, "undefined", commitSHA.sha, "160000", "commit"))
  ELSE Returned(File(filePath, "undefined", "undefined", "040000", "tree"))

\* stat, then the submodule test for a directory, or readFile: the body both
\* branches of getFileContentAndMode share
inspect(filePath) ==
  LET stats == FS(filePath)
      mode == getFileMode(stats.mode)
  IN  IF stats.kind = "missing" THEN Thrown(ENOENTError)
      ELSE IF stats.kind = "dir"
      THEN directoryFile(filePath, getSubmoduleCommitSHA(filePath))
      ELSE Returned(File(filePath, stats.content, "undefined", mode,
                         getFileType(mode)))

\* (mutant of catchENOENT) every error is thrown on
catchENOENT_Rethrows(r, filePath) == r

\* the catch of getFileContentAndMode: what was thrown is thrown on unless it
\* is an object whose code is "ENOENT"; then the File is a deletion marker
catchENOENT(r, filePath) ==
  IF r.ok THEN r
  ELSE IF ~r.error.isObject THEN r
  ELSE IF r.error.code # "ENOENT" THEN r
  ELSE Returned(DeletionMarker(filePath))

\* (mutant of getFileContentAndMode) a missing path is a deletion marker
\* whatever deleteIfNotExist is
getFileContentAndMode_AlwaysTolerant(filePath, deleteIfNotExist) ==
  catchENOENT(inspect(filePath), filePath)

\* getFileContentAndMode: without deleteIfNotExist every error is thrown on;
\* with it, the body runs inside the try, so that an ENOENT thrown anywhere in
\* it ends as a deletion marker of mode 100644
getFileContentAndMode(filePath, deleteIfNotExist) ==
  IF ~deleteIfNotExist THEN inspect(filePath)
  ELSE catchENOENT(inspect(filePath), filePath)

\* (mutant of treeFile) the path of the inspected File, root directory
\* included, is passed on
treeFile_DiskPath(r, filePath) ==
  IF ~r.ok THEN r
  ELSE Returned(File(r.file.path, r.file.content, r.file.sha, r.file.mode,
                     getFileType(r.file.mode)))

\* the entry createTreeFile returns for the File r
treeFile(r, filePath) ==
  IF ~r.ok THEN r
  ELSE Returned(File(filePath, r.file.content, r.file.sha, r.file.mode,
                     getFileType(r.file.mode)))

createTreeFile(opts, filePath) ==
  treeFile(getFileContentAndMode(pathJoin(opts.rootDir, filePath),
                                 opts.deleteIfNotExist),
           filePath)

\* (mutant of deletedTreeFile) the content read from disk is kept
deletedTreeFile_KeepsContent(r, filePath) ==
  IF ~r.ok THEN r
  ELSE Returned(File(filePath, r.file.content, "null", r.file.mode,
                     getFileType(r.file.mode)))

\* (mutant of deletedTreeFile) the sha of the inspected File is passed on
deletedTreeFile_KeepsSha(r, filePath) ==
  IF ~r.ok THEN r
  ELSE Returned(File(filePath, "undefined", r.file.sha, r.file.mode,
                     getFileType(r.file.mode)))

\* the entry createDeletedTreeFile returns for the File r: sha null, no
\* content, r's mode
deletedTreeFile(r, filePath) ==
  IF ~r.ok THEN r
  ELSE Returned(File(filePath, "undefined", "null", r.file.mode,
                     getFileType(r.file.mode)))

createDeletedTreeFile(opts, filePath) ==
  deletedTreeFile(getFileContentAndMode(pathJoin(opts.rootDir, filePath),
                                        opts.deleteIfNotExist),
                  filePath)

\* the two loops of getTreeSHA: the entries built so far, or the first error
RECURSIVE buildTree(_, _, _, _)
buildTree(opts, files, deletedFiles, tree) ==
  IF files # <<>>
  THEN LET r == createTreeFile(opts, Head(files))
       IN  IF ~r.ok THEN [ok |-> FALSE, tree |-> tree, error |-> r.error]
           ELSE buildTree(opts, Tail(files), deletedFiles, Append(tree, r.file))
  ELSE IF deletedFiles # <<>>
  THEN LET r == createDeletedTreeFile(opts, Head(deletedFiles))
       IN  IF ~r.ok THEN [ok |-> FALSE, tree |-> tree, error |-> r.error]
           ELSE buildTree(opts, files, Tail(deletedFiles), Append(tree, r.file))
  ELSE [ok |-> TRUE, tree |-> tree, error |-> NoError]

\* ------------------------------------------------- the remote repository

\* a Ref of the source: the commit and its tree (the SHA of a commit is its
\* index among the commits, that of a tree 100 + its index among the trees);
\* undefined is the zero Ref
Ref(oid, tree) == [target |-> [oid |-> oid, tree |-> [oid |-> tree]]]

Undefined == Ref(0, 0)

\* the repository before the first invocation: commit 1 is a root commit,
\* commit 2 its child and the tip of main; feat does not exist (0)
InitCommits ==
  << [tree |-> 101, parents |-> <<>>], [tree |-> 102, parents |-> <<1>>] >>

InitTrees ==
  << [base_tree |-> 0, tree |-> <<>>], [base_tree |-> 101, tree |-> <<>>] >>

InitRefs == [b \in Branches |-> IF b = DefaultBranchName THEN 2 ELSE 0]

\* whether commit a is b or an ancestor of b
RECURSIVE IsAncestor(_, _, _)
IsAncestor(cs, a, b) ==
  \/ a = b
  \/ \E i \in 1..Len(cs[b].parents) : IsAncestor(cs, a, cs[b].parents[i])

\* (mutant of HeadsRef) the ref of the default branch whatever the target is
HeadsRef_Default(branch) == <<"heads", DefaultBranchName>>

\* the branch a ref path names: heads/<branch> for updateRef,
\* refs/heads/<branch> for createRef
HeadsRef(branch) == <<"heads", branch>>

RefsHeadsRef(branch) == <<"refs", "heads", branch>>

BranchOf(ref) == ref[Len(ref)]

\* the calls the remote may fail for a reason of its own: "none" is no fault
Faults == {"none", "Forbidden"}

UpdateRefFaults == {"none", "Forbidden", "ThrownString"}

\* GraphQL repository.ref(qualifiedName): the Ref of a branch, or undefined
GitRef(rs, cs, branch) ==
  IF rs[branch] = 0 THEN Undefined ELSE Ref(rs[branch], cs[rs[branch]].tree)

\* GraphQL repository.object(oid).tree.oid
GitCommitTree(cs, oid) == cs[oid].tree

\* the SHA of the i-th tree object: tree SHAs are apart from commit SHAs
TreeSHA(i) == 100 + i

\* POST git/trees: a new tree object, its SHA the next free one
GitCreateTree(ts, tree, base_tree) ==
  [trees |-> Append(ts, [base_tree |-> base_tree, tree |-> tree]),
   sha |-> TreeSHA(Len(ts) + 1)]

\* POST git/commits: a new commit object, its SHA the next free one
GitCreateCommit(cs, tree, parents) ==
  [commits |-> Append(cs, [tree |-> tree, parents |-> parents]),
   sha |-> Len(cs) + 1]

\* PATCH git/refs/heads/<branch>: fails if the branch is absent, and, without
\* force, if the new commit does not descend from the current tip
GitUpdateRef(rs, cs, ref, sha, force, fault) ==
  LET branch == BranchOf(ref)
  IN  IF fault # "none"
      THEN [ok |-> FALSE, refs |-> rs, sha |-> 0, error |-> FaultError(fault)]
      ELSE IF rs[branch] = 0
      THEN [ok |-> FALSE, refs |-> rs, sha |-> 0, error |-> RefNotExistError]
      ELSE IF ~force /\ ~IsAncestor(cs, rs[branch], sha)
      THEN [ok |-> FALSE, refs |-> rs, sha |-> 0, error |-> NotFastForwardError]
      ELSE [ok |-> TRUE, refs |-> [rs EXCEPT ![branch] = sha], sha |-> sha,
            error |-> NoError]

\* POST git/refs: fails if the branch exists
GitCreateRef(rs, ref, sha, fault) ==
  LET branch == BranchOf(ref)
  IN  IF fault # "none"
      THEN [ok |-> FALSE, refs |-> rs, sha |-> 0, error |-> FaultError(fault)]
      ELSE IF rs[branch] # 0
      THEN [ok |-> FALSE, refs |-> rs, sha |-> 0, error |-> RefExistsError]
      ELSE [ok |-> TRUE, refs |-> [rs EXCEPT ![branch] = sha], sha |-> sha,
            error |-> NoError]

\* ------------------------------------------------------------------- state

VARIABLES
  refs,        \* remote: branch -> tip commit SHA, 0 if the branch is absent
  commits,     \* remote: the commit objects, a commit's SHA its index
  trees,       \* remote: the tree objects, a tree's SHA its index
  pc,          \* invocation -> the await it stands before
  opts,        \* invocation -> its Options
  baseBranch,  \* invocation -> the Ref getBaseBranch returned
  treeSHA,     \* invocation -> the SHA getTreeSHA returned
  commit,      \* invocation -> commit.data.sha
  result,      \* invocation -> what createCommit returned or threw
  calls,       \* invocation -> the remote calls it made, in order
  refsBefore,  \* invocation -> refs when it started
  probe        \* a local function applied on its own: its input and output

vars ==
  <<refs, commits, trees, pc, opts, baseBranch, treeSHA, commit, result,
    calls, refsBefore, probe>>

\* one remote call as logged: the operation, its arguments, how it ended
Call(op) ==
  [op |-> op, ok |-> TRUE, error |-> NoError, branch |-> "", ref |-> <<>>,
   sha |-> 0, tree |-> 0, parents |-> <<>>, base_tree |-> 0,
   entries |-> <<>>, force |-> FALSE]

Failed(call, error) == [call EXCEPT !.ok = FALSE, !.error = error]

Pending == [status |-> "pending", sha |-> 0, error |-> NoError]

ReturnedUndefined == [status |-> "undefined", sha |-> 0, error |-> NoError]

\* Result: { commit: { sha } }
ReturnedResult(sha) == [status |-> "returned", sha |-> sha, error |-> NoError]

Threw(error) == [status |-> "thrown", sha |-> 0, error |-> error]

\* the input and the output of a function applied on its own: a git directory
\* and what resolveGitHEAD makes of it, a stat mode and what getFileMode
\* makes of it
Probe(gitDir, mode) ==
  [gitDir |-> gitDir, mode |-> mode, applied |-> FALSE,
   head |-> ReturnedSHA("undefined"), fileMode |-> ""]

NoProbe == Probe(GitDir(Absent, Absent, NoPackedRefs), 0)

\* the remote as it is at first, and no invocation made yet
NoInvocation ==
  /\ refs = InitRefs
  /\ commits = InitCommits
  /\ trees = InitTrees
  /\ pc = [p \in Procs |-> "idle"]
  /\ opts = [p \in Procs |-> NoOptions]
  /\ baseBranch = [p \in Procs |-> Undefined]
  /\ treeSHA = [p \in Procs |-> 0]
  /\ commit = [p \in Procs |-> 0]
  /\ result = [p \in Procs |-> Pending]
  /\ calls = [p \in Procs |-> <<>>]
  /\ refsBefore = [p \in Procs |-> InitRefs]

Init == NoInvocation /\ probe = NoProbe

\* ------------------------------------------------------------ createCommit

\* the first test of createCommit: nothing to commit
IsNoop(o) == Len(o.files) = 0 /\ Len(o.deletedFiles) = 0 /\ ~o.empty

RequiredError(key) == NewError("Required", <<key, "is", "required">>)

\* (mutant of validateOptions) message is not among the required keys
validateOptions_WithoutMessage(o) ==
  IF o.owner = "" THEN RequiredError("owner")
  ELSE IF o.repo = "" THEN RequiredError("repo")
  ELSE IF o.branch = "" THEN RequiredError("branch")
  ELSE NoError

\* validateOptions: the first falsy key among owner, repo, branch, message
validateOptions(o) ==
  IF o.owner = "" THEN RequiredError("owner")
  ELSE IF o.repo = "" THEN RequiredError("repo")
  ELSE IF o.branch = "" THEN RequiredError("branch")
  ELSE IF o.message = "" THEN RequiredError("message")
  ELSE NoError

\* (mutant of Enter) validateOptions moved before the no-op test
Enter_ValidatesFirst(p, o) ==
  /\ opts' = [opts EXCEPT ![p] = o]
  /\ refsBefore' = [refsBefore EXCEPT ![p] = refs]
  /\ IF validateOptions(o) # NoError
     THEN /\ result' = [result EXCEPT ![p] = Threw(validateOptions(o))]
          /\ pc' = [pc EXCEPT ![p] = "done"]
     ELSE IF IsNoop(o)
     THEN /\ result' = [result EXCEPT ![p] = ReturnedUndefined]
          /\ pc' = [pc EXCEPT ![p] = "done"]
     ELSE /\ pc' = [pc EXCEPT ![p] = "getBaseBranch"]
          /\ UNCHANGED result
  /\ UNCHANGED <<refs, commits, trees, baseBranch, treeSHA, commit, calls, probe>>

\* createCommit up to its first await
Enter(p, o) ==
  /\ opts' = [opts EXCEPT ![p] = o]
  /\ refsBefore' = [refsBefore EXCEPT ![p] = refs]
  /\ IF IsNoop(o)
     THEN /\ result' = [result EXCEPT ![p] = ReturnedUndefined]
          /\ pc' = [pc EXCEPT ![p] = "done"]
     ELSE IF validateOptions(o) # NoError
     THEN /\ result' = [result EXCEPT ![p] = Threw(validateOptions(o))]
          /\ pc' = [pc EXCEPT ![p] = "done"]
     ELSE /\ pc' = [pc EXCEPT ![p] = "getBaseBranch"]
          /\ UNCHANGED result
  /\ UNCHANGED <<refs, commits, trees, baseBranch, treeSHA, commit, calls, probe>>

\* the first invocation, with any request
Start ==
  /\ pc[1] = "idle"
  /\ \E o \in Options : Enter(1, o)

\* a later invocation: the caller sends the same request again, once the
\* previous invocation has returned its Result
Repeat(p) ==
  /\ p > 1
  /\ pc[p] = "idle"
  /\ pc[p - 1] = "done"
  /\ result[p - 1].status = "returned"
  /\ Enter(p, opts[1])

\* one step of invocation p: the call it made, where it stands next and what
\* it has returned or thrown by then
Step(p, call, next, res) ==
  /\ calls' = [calls EXCEPT ![p] = Append(calls[p], call)]
  /\ pc' = [pc EXCEPT ![p] = next]
  /\ result' = [result EXCEPT ![p] = res]

\* the step ends the invocation by throwing error
Throw(p, call, error) == Step(p, Failed(call, error), "done", Threw(error))

\* (mutant of BaseSource) opts.baseBranch tested before opts.baseSHA
BaseSource_BranchFirst(o) ==
  IF o.baseBranch # "" THEN "baseBranch"
  ELSE IF o.baseSHA # 0 THEN "baseSHA"
  ELSE "branch"

\* which source getBaseBranch takes the base from: opts.baseSHA if truthy,
\* else opts.baseBranch if truthy, else the target branch
BaseSource(o) ==
  IF o.baseSHA # 0 THEN "baseSHA"
  ELSE IF o.baseBranch # "" THEN "baseBranch"
  ELSE "branch"

\* (mutant of IsUndefined) the lookup's answer compared with null
IsUndefined_Null(branch) == FALSE

\* branch === undefined
IsUndefined(branch) == branch = Undefined

\* new Error(`Branch ${opts.branch} does not exist in ${owner}/${repo}`)
BranchNotExistError(o) ==
  NewError("BranchNotExist",
           <<"Branch", o.branch, "does", "not", "exist", "in", o.owner, o.repo>>)

\* getBaseBranch up to the lookup of the target branch
GetBaseBranch(p) ==
  /\ pc[p] = "getBaseBranch"
  /\ \E fault \in Faults :
       LET o == opts[p]
           source == BaseSource(o)
       IN  IF source = "baseSHA"
           THEN LET call == [Call("getTree") EXCEPT !.sha = o.baseSHA]
                IN  IF fault # "none"
                    THEN /\ Throw(p, call, FaultError(fault))
                         /\ UNCHANGED baseBranch
                    ELSE /\ Step(p, call, "getTreeSHA", Pending)
                         /\ baseBranch' =
                              [baseBranch EXCEPT
                                 ![p] = Ref(o.baseSHA, GitCommitTree(commits, o.baseSHA))]
           ELSE IF source = "baseBranch"
           THEN LET call == [Call("getBranch") EXCEPT !.branch = o.baseBranch]
                    branch == GitRef(refs, commits, o.baseBranch)
                IN  IF fault # "none"
                    THEN /\ Throw(p, call, FaultError(fault))
                         /\ UNCHANGED baseBranch
                    ELSE IF IsUndefined(branch)
                    THEN /\ Step(p, call, "done", Threw(BranchNotExistError(o)))
                         /\ UNCHANGED baseBranch
                    ELSE /\ Step(p, call, "getTreeSHA", Pending)
                         /\ baseBranch' = [baseBranch EXCEPT ![p] = branch]
           ELSE LET call == [Call("getBranch") EXCEPT !.branch = o.branch]
                    branch == GitRef(refs, commits, o.branch)
                IN  IF fault # "none"
                    THEN /\ Throw(p, call, FaultError(fault))
                         /\ UNCHANGED baseBranch
                    ELSE IF branch # Undefined
                    THEN /\ Step(p, call, "getTreeSHA", Pending)
                         /\ baseBranch' = [baseBranch EXCEPT ![p] = branch]
                    ELSE /\ Step(p, call, "getDefaultBranch", Pending)
                         /\ UNCHANGED baseBranch
  /\ UNCHANGED <<refs, commits, trees, opts, treeSHA, commit, refsBefore, probe>>

\* the end of getBaseBranch: the repository's default branch
GetDefaultBranch(p) ==
  /\ pc[p] = "getDefaultBranch"
  /\ \E fault \in Faults :
       LET call == Call("getDefaultBranch")
       IN  IF fault # "none"
           THEN /\ Throw(p, call, FaultError(fault))
                /\ UNCHANGED baseBranch
           ELSE /\ Step(p, call, "getTreeSHA", Pending)
                /\ baseBranch' =
                     [baseBranch EXCEPT
                        ![p] = GitRef(refs, commits, DefaultBranchName)]
  /\ UNCHANGED <<refs, commits, trees, opts, treeSHA, commit, refsBefore, probe>>

\* (mutant of BaseTree) opts.noParent ignored
BaseTree_Always(o, base) == base.target.tree.oid

\* base_tree of createTree: none (0) for a commit without parent
BaseTree(o, base) == IF o.noParent THEN 0 ELSE base.target.tree.oid

\* (mutant of EmptyCommitTree) the base commit's SHA taken for its tree's
EmptyCommitTree_CommitOid(base) == base.target.oid

\* the tree of an empty commit: that of the base, no tree is created
EmptyCommitTree(base) == base.target.tree.oid

\* (mutant of GetTreeSHA) the entries are built before opts.empty is tested
GetTreeSHA_InspectsFirst(p) ==
  /\ pc[p] = "getTreeSHA"
  /\ LET o == opts[p]
         built == buildTree(o, o.files, o.deletedFiles, <<>>)
         call == [Call("createTree") EXCEPT
                    !.entries = built.tree,
                    !.base_tree = BaseTree(o, baseBranch[p])]
         resp == GitCreateTree(trees, call.entries, call.base_tree)
     IN  IF ~built.ok
         THEN /\ pc' = [pc EXCEPT ![p] = "done"]
              /\ result' = [result EXCEPT ![p] = Threw(built.error)]
              /\ UNCHANGED <<trees, calls, treeSHA>>
         ELSE IF o.empty
         THEN /\ treeSHA' = [treeSHA EXCEPT ![p] = EmptyCommitTree(baseBranch[p])]
              /\ pc' = [pc EXCEPT ![p] = "createCommit"]
              /\ UNCHANGED <<trees, calls, result>>
         ELSE \E fault \in Faults :
                IF fault # "none"
                THEN /\ Throw(p, call, FaultError(fault))
                     /\ UNCHANGED <<trees, treeSHA>>
                ELSE /\ Step(p, [call EXCEPT !.tree = resp.sha], "createCommit", Pending)
                     /\ trees' = resp.trees
                     /\ treeSHA' = [treeSHA EXCEPT ![p] = resp.sha]
  /\ UNCHANGED <<refs, commits, opts, baseBranch, commit, refsBefore, probe>>

\* getTreeSHA: the base tree for an empty commit; else the entries of files,
\* then of deletedFiles, sent to createTree
GetTreeSHA(p) ==
  /\ pc[p] = "getTreeSHA"
  /\ LET o == opts[p]
         built == buildTree(o, o.files, o.deletedFiles, <<>>)
         call == [Call("createTree") EXCEPT
                    !.entries = built.tree,
                    !.base_tree = BaseTree(o, baseBranch[p])]
         resp == GitCreateTree(trees, call.entries, call.base_tree)
     IN  IF o.empty
         THEN /\ treeSHA' = [treeSHA EXCEPT ![p] = EmptyCommitTree(baseBranch[p])]
              /\ pc' = [pc EXCEPT ![p] = "createCommit"]
              /\ UNCHANGED <<trees, calls, result>>
         ELSE IF ~built.ok
         THEN /\ pc' = [pc EXCEPT ![p] = "done"]
              /\ result' = [result EXCEPT ![p] = Threw(built.error)]
              /\ UNCHANGED <<trees, calls, treeSHA>>
         ELSE \E fault \in Faults :
                IF fault # "none"
                THEN /\ Throw(p, call, FaultError(fault))
                     /\ UNCHANGED <<trees, treeSHA>>
                ELSE /\ Step(p, [call EXCEPT !.tree = resp.sha], "createCommit", Pending)
                     /\ trees' = resp.trees
                     /\ treeSHA' = [treeSHA EXCEPT ![p] = resp.sha]
  /\ UNCHANGED <<refs, commits, opts, baseBranch, commit, refsBefore, probe>>

\* (mutant of Parents) opts.noParent ignored
Parents_Always(o, base) == <<base.target.oid>>

\* parents of the commit: undefined (none) with noParent, else the base commit
Parents(o, base) == IF o.noParent THEN <<>> ELSE <<base.target.oid>>

\* octokit.rest.git.createCommit of createCommit
CreateCommit(p) ==
  /\ pc[p] = "createCommit"
  /\ \E fault \in Faults :
       LET o == opts[p]
           call == [Call("createCommit") EXCEPT
                      !.tree = treeSHA[p],
                      !.parents = Parents(o, baseBranch[p])]
           resp == GitCreateCommit(commits, call.tree, call.parents)
       IN  IF fault # "none"
           THEN /\ Throw(p, call, FaultError(fault))
                /\ UNCHANGED <<commits, commit>>
           ELSE /\ Step(p, [call EXCEPT !.sha = resp.sha], "updateRef", Pending)
                /\ commits' = resp.commits
                /\ commit' = [commit EXCEPT ![p] = resp.sha]
  /\ UNCHANGED <<refs, trees, opts, baseBranch, treeSHA, refsBefore, probe>>

\* isError: a non-null object whose message is a string
isError(value) == value.isObject /\ value.hasMessage

\* (mutant of FallsBackToCreateRef) any Error of updateRef leads to createRef
FallsBackToCreateRef_AnyError(error) == isError(error)

\* (mutant of FallsBackToCreateRef) the message compared, not searched
FallsBackToCreateRef_ExactMessage(error) ==
  /\ isError(error)
  /\ error.message = <<"Reference", "does", "not", "exist">>

\* the catch of createCommit: createRef is tried only after an Error whose
\* message includes "Reference does not exist"
FallsBackToCreateRef(error) ==
  /\ isError(error)
  /\ Includes(error.message, <<"Reference", "does", "not", "exist">>)

\* (mutant of Force) updateRef always forced
Force_Always(o) == TRUE

\* (mutant of Force) opts.forcePush not passed on
Force_Never(o) == FALSE

\* force of updateRef: opts.forcePush || false
Force(o) == o.forcePush

\* (mutant of UpdateRef) an update that failed for another reason than the
\* absence of the ref is tried again
UpdateRef_Retries(p) ==
  /\ pc[p] = "updateRef"
  /\ \E fault \in UpdateRefFaults :
       LET o == opts[p]
           call == [Call("updateRef") EXCEPT
                      !.ref = HeadsRef(o.branch), !.sha = commit[p],
                      !.force = Force(o)]
           resp == GitUpdateRef(refs, commits, call.ref, call.sha, call.force, fault)
       IN  IF resp.ok
           THEN /\ Step(p, call, "done", ReturnedResult(resp.sha))
                /\ refs' = resp.refs
           ELSE IF FallsBackToCreateRef(resp.error)
           THEN /\ Step(p, Failed(call, resp.error), "createRef", Pending)
                /\ UNCHANGED refs
           ELSE /\ Step(p, Failed(call, resp.error), "updateRef", Pending)
                /\ UNCHANGED refs
  /\ UNCHANGED <<commits, trees, opts, baseBranch, treeSHA, commit, refsBefore, probe>>

\* updateRef, and the catch around it
UpdateRef(p) ==
  /\ pc[p] = "updateRef"
  /\ \E fault \in UpdateRefFaults :
       LET o == opts[p]
           call == [Call("updateRef") EXCEPT
                      !.ref = HeadsRef(o.branch), !.sha = commit[p],
                      !.force = Force(o)]
           resp == GitUpdateRef(refs, commits, call.ref, call.sha, call.force, fault)
       IN  IF resp.ok
           THEN /\ Step(p, call, "done", ReturnedResult(resp.sha))
                /\ refs' = resp.refs
           ELSE IF FallsBackToCreateRef(resp.error)
           THEN /\ Step(p, Failed(call, resp.error), "createRef", Pending)
                /\ UNCHANGED refs
           ELSE /\ Throw(p, call, resp.error)
                /\ UNCHANGED refs
  /\ UNCHANGED <<commits, trees, opts, baseBranch, treeSHA, commit, refsBefore, probe>>

\* createRef
CreateRef(p) ==
  /\ pc[p] = "createRef"
  /\ \E fault \in Faults :
       LET o == opts[p]
           call == [Call("createRef") EXCEPT
                      !.ref = RefsHeadsRef(o.branch), !.sha = commit[p]]
           resp == GitCreateRef(refs, call.ref, call.sha, fault)
       IN  IF resp.ok
           THEN /\ Step(p, call, "done", ReturnedResult(resp.sha))
                /\ refs' = resp.refs
           ELSE /\ Throw(p, call, resp.error)
                /\ UNCHANGED refs
  /\ UNCHANGED <<commits, trees, opts, baseBranch, treeSHA, commit, refsBefore, probe>>

Next ==
  \/ Start
  \/ \E p \in Procs : Repeat(p)
  \/ \E p \in Procs : GetBaseBranch(p)
  \/ \E p \in Procs : GetDefaultBranch(p)
  \/ \E p \in Procs : GetTreeSHA(p)
  \/ \E p \in Procs : CreateCommit(p)
  \/ \E p \in Procs : UpdateRef(p)
  \/ \E p \in Procs : CreateRef(p)

Spec == Init /\ [][Next]_vars

\* ---- one invocation over every kind of path

StartTree ==
  /\ pc[1] = "idle"
  /\ \E o \in TreeOptions : Enter(1, o)

NextTree ==
  \/ StartTree
  \/ \E p \in Procs : GetBaseBranch(p)
  \/ \E p \in Procs : GetDefaultBranch(p)
  \/ \E p \in Procs : GetTreeSHA(p)
  \/ \E p \in Procs : CreateCommit(p)
  \/ \E p \in Procs : UpdateRef(p)
  \/ \E p \in Procs : CreateRef(p)

SpecTree == Init /\ [][NextTree]_vars

\* ---- one invocation with a root directory

StartRoot ==
  /\ pc[1] = "idle"
  /\ \E o \in RootOptions : Enter(1, o)

NextRoot ==
  \/ StartRoot
  \/ \E p \in Procs : GetBaseBranch(p)
  \/ \E p \in Procs : GetDefaultBranch(p)
  \/ \E p \in Procs : GetTreeSHA(p)
  \/ \E p \in Procs : CreateCommit(p)
  \/ \E p \in Procs : UpdateRef(p)
  \/ \E p \in Procs : CreateRef(p)

SpecRoot == Init /\ [][NextRoot]_vars

\* ---- two concurrent invocations on one target branch

ConcProcs == {1, 2}

\* invocation p is made, at any moment, on the branch of the other one if
\* that one has been made
Invoke(p) ==
  /\ pc[p] = "idle"
  /\ \E o \in ConcOptions :
       /\ \A q \in ConcProcs : pc[q] # "idle" => opts[q].branch = o.branch
       /\ Enter(p, o)

NextConc ==
  \/ \E p \in ConcProcs : Invoke(p)
  \/ \E p \in Procs : GetBaseBranch(p)
  \/ \E p \in Procs : GetDefaultBranch(p)
  \/ \E p \in Procs : GetTreeSHA(p)
  \/ \E p \in Procs : CreateCommit(p)
  \/ \E p \in Procs : UpdateRef(p)
  \/ \E p \in Procs : CreateRef(p)

SpecConc == Init /\ [][NextConc]_vars

\* ---- resolveGitHEAD applied to a git directory

\* most lines of packed-refs
MaxPackedLines == 2

\* HEAD: absent, detached, or symbolic
HEADs == {Absent, Text(<<"1111", "\n">>), SymbolicHEAD}

\* the loose file of MainRef: absent, or a SHA and a line break
LooseRefs == {Absent, Text(<<"2222", "\n">>)}

\* lines of packed-refs: the header comment, a blank line, the line of
\* MainRef, and lines of refs whose names begin or end with MainRef or with
\* which MainRef begins or ends
PackedLines ==
  {<<"#", " ", "pack-refs", " ", "with:", " ", "peeled">>,
   <<>>,
   <<"3333", " ", MainRef>>,
   <<"4444", " ", "refs/heads/main2">>,
   <<"5555", " ", "origin/refs/heads/main">>,
   <<"6666", " ", "refs/heads">>,
   <<"7777", " ", "main">>}

GitDirs ==
  {GitDir(head, loose, packed) :
     head \in HEADs, loose \in LooseRefs,
     packed \in {NoPackedRefs}
                  \cup {PackedRefs(lines) : lines \in SeqsUpTo(PackedLines, MaxPackedLines)}}

InitHEAD == NoInvocation /\ probe \in {Probe(gitDir, 0) : gitDir \in GitDirs}

ResolveHEAD ==
  /\ ~probe.applied
  /\ probe' = [probe EXCEPT !.applied = TRUE,
                            !.head = resolveGitHEAD(probe.gitDir)]
  /\ UNCHANGED <<refs, commits, trees, pc, opts, baseBranch, treeSHA, commit,
                 result, calls, refsBefore>>

NextHEAD == ResolveHEAD

SpecHEAD == InitHEAD /\ [][NextHEAD]_vars

\* ---- getFileMode applied to a stat mode

\* largest stat mode: the file type (4 bits), setuid, setgid, sticky and the
\* nine permission bits
MaxMode == 65535

InitMode == NoInvocation /\ probe \in {Probe(NoProbe.gitDir, mode) : mode \in 0..MaxMode}

MapMode ==
  /\ ~probe.applied
  /\ probe' = [probe EXCEPT !.applied = TRUE,
                            !.fileMode = getFileMode(probe.mode)]
  /\ UNCHANGED <<refs, commits, trees, pc, opts, baseBranch, treeSHA, commit,
                 result, calls, refsBefore>>

NextMode == MapMode

SpecMode == InitMode /\ [][NextMode]_vars

\* ============================================================== properties

\* the operations invocation p has called, in order
Ops(p) == [i \in 1..Len(calls[p]) |-> calls[p][i].op]

Called(p, op) == \E i \in 1..Len(calls[p]) : calls[p][i].op = op

WriteOps == {"createTree", "createCommit", "updateRef", "createRef"}

NoWrite(p) == \A i \in 1..Len(calls[p]) : calls[p][i].op \notin WriteOps

\* the request has nothing to commit
NothingToCommit(o) == o.files = <<>> /\ o.deletedFiles = <<>> /\ ~o.empty

\* the request has its four required fields
HasRequired(o) == o.owner # "" /\ o.repo # "" /\ o.branch # "" /\ o.message # ""

\* invocation p has started and its request goes on to base resolution
Performs(p) ==
  pc[p] # "idle" /\ ~NothingToCommit(opts[p]) /\ HasRequired(opts[p])

\* invocation p has its base: getBaseBranch has returned
Resolved(p) ==
  \/ pc[p] \in {"getTreeSHA", "createCommit", "updateRef", "createRef"}
  \/ pc[p] = "done" /\ baseBranch[p] # Undefined

\* the commit and tree a branch pointed to when invocation p started
RefBefore(p, branch) ==
  Ref(refsBefore[p][branch], commits[refsBefore[p][branch]].tree)

\* the base state the priority of section 4.1 gives invocation p
ExpectedBase(p) ==
  LET o == opts[p]
  IN  IF o.baseSHA # 0 THEN Ref(o.baseSHA, commits[o.baseSHA].tree)
      ELSE IF o.baseBranch # "" THEN RefBefore(p, o.baseBranch)
      ELSE IF refsBefore[p][o.branch] # 0 THEN RefBefore(p, o.branch)
      ELSE RefBefore(p, DefaultBranchName)

\* C1: a request with no additions, no deletions and allowEmpty unset returns
\* the no-op sentinel (undefined) and makes no remote call, whatever its
\* other fields are, missing required fields included.
C1_NoopReturnsUndefinedWithoutCalls ==
  \A p \in Procs :
    (pc[p] # "idle" /\ NothingToCommit(opts[p]))
      => /\ pc[p] = "done"
         /\ result[p] = ReturnedUndefined
         /\ calls[p] = <<>>
         /\ refs = refsBefore[p]

\* C1 witness: a no-op request without owner has returned undefined
C1_Witness ==
  /\ pc[1] = "done"
  /\ NothingToCommit(opts[1])
  /\ opts[1].owner = ""
  /\ opts[1].baseBranch = "feat"
  /\ result[1].status = "undefined"

\* C2: with allowEmpty set and no additions and no deletions, createTree is
\* never called and every createCommit call carries the tree SHA of the
\* resolved base state.
C2_EmptyCommitReusesBaseTree ==
  \A p \in Procs :
    (pc[p] # "idle" /\ opts[p].empty /\ opts[p].files = <<>>
       /\ opts[p].deletedFiles = <<>>)
      => /\ ~Called(p, "createTree")
         /\ \A i \in 1..Len(calls[p]) :
              calls[p][i].op = "createCommit"
                => calls[p][i].tree = ExpectedBase(p).target.tree.oid
         /\ \A i \in 1..Len(calls[p]) :
              (calls[p][i].op = "createCommit" /\ calls[p][i].ok)
                => commits[calls[p][i].sha].tree = ExpectedBase(p).target.tree.oid

\* C2 witness: an empty commit on an explicit base SHA has been created and
\* returned
C2_Witness ==
  /\ pc[1] = "done"
  /\ opts[1].empty /\ opts[1].files = <<>> /\ opts[1].deletedFiles = <<>>
  /\ opts[1].baseSHA = 1
  /\ Called(1, "createCommit")
  /\ result[1].status = "returned"

\* the calls of invocation p that look a branch up
BranchLookups(p) ==
  {calls[p][i].branch : i \in {j \in 1..Len(calls[p]) : calls[p][j].op = "getBranch"}}

\* C3: the base is resolved by strict priority, first match wins: explicit
\* base SHA, explicit base branch, the target branch if it exists, the
\* default branch.  With an explicit base SHA no branch and no default branch
\* is looked up; with an explicit base branch only that branch is looked up;
\* the default branch is looked up only if neither explicit base is given and
\* the lookup of the target branch returned absent.  (A request that is a
\* no-op or lacks a required field makes no call at all.)
C3_BasePriority ==
  \A p \in Procs :
    IF ~Performs(p) THEN calls[p] = <<>>
    ELSE
      LET o == opts[p]
      IN  /\ o.baseSHA # 0
               => /\ BranchLookups(p) = {}
                  /\ ~Called(p, "getDefaultBranch")
          /\ (o.baseSHA = 0 /\ o.baseBranch # "")
               => /\ BranchLookups(p) \subseteq {o.baseBranch}
                  /\ ~Called(p, "getDefaultBranch")
                  /\ ~Called(p, "getTree")
          /\ (o.baseSHA = 0 /\ o.baseBranch = "")
               => /\ BranchLookups(p) \subseteq {o.branch}
                  /\ ~Called(p, "getTree")
          /\ Called(p, "getDefaultBranch")
               => /\ o.baseSHA = 0 /\ o.baseBranch = ""
                  /\ refsBefore[p][o.branch] = 0
                  /\ Len(calls[p]) >= 2
                  /\ calls[p][1].op = "getBranch" /\ calls[p][1].ok
                  /\ calls[p][1].branch = o.branch
                  /\ calls[p][2].op = "getDefaultBranch"
          /\ (o.baseSHA = 0 /\ o.baseBranch = "" /\ refsBefore[p][o.branch] # 0)
               => ~Called(p, "getDefaultBranch")
          /\ Resolved(p) => baseBranch[p] = ExpectedBase(p)

\* C3 witness: both explicit bases given, the base is the explicit SHA's
\* commit, which is not the tip of the explicit base branch
C3_Witness ==
  /\ pc[1] = "getTreeSHA"
  /\ opts[1].baseSHA = 1 /\ opts[1].baseBranch = "main"
  /\ baseBranch[1] = Ref(1, 101)
  /\ refs["main"] = 2

\* C4: with no explicit base SHA and an explicit base branch that does not
\* exist, the lookup of that branch is the only remote call an invocation
\* makes: no target or default branch is consulted and no remote write is
\* made; an invocation that reaches base resolution (its request has
\* something to commit and its required fields) fails, with the
\* branch-does-not-exist error once the lookup has answered.
C4_MissingBaseBranchFails ==
  \A p \in Procs :
    (pc[p] # "idle" /\ opts[p].baseSHA = 0 /\ opts[p].baseBranch # ""
       /\ refsBefore[p][opts[p].baseBranch] = 0)
      => /\ NoWrite(p)
         /\ ~Called(p, "getDefaultBranch")
         /\ BranchLookups(p) \subseteq {opts[p].baseBranch}
         /\ Len(calls[p]) <= 1
         /\ refs = refsBefore[p]
         /\ Performs(p)
              => /\ pc[p] \in {"getBaseBranch", "done"}
                 /\ pc[p] = "done"
                      => /\ result[p].status = "thrown"
                         /\ calls[p][1].ok
                              => result[p] = Threw(BranchNotExistError(opts[p]))

\* C4 witness: base branch feat does not exist, the target main does, and the
\* invocation has thrown the branch-does-not-exist error
C4_Witness ==
  /\ pc[1] = "done"
  /\ opts[1].baseSHA = 0 /\ opts[1].baseBranch = "feat" /\ opts[1].branch = "main"
  /\ result[1].status = "thrown"
  /\ result[1].error.name = "BranchNotExist"

\* the remote failed a call of invocation p for a reason of its own
RemoteFault(p) ==
  \E i \in 1..Len(calls[p]) :
    calls[p][i].error.name \in {"Forbidden", "ThrownString"}

\* the last call of invocation p is op and it succeeded
EndedBy(p, op) ==
  /\ calls[p] # <<>>
  /\ calls[p][Len(calls[p])].op = op
  /\ calls[p][Len(calls[p])].ok

\* some path of the list does not exist on disk
SomeMissing(paths) == \E i \in 1..Len(paths) : FS(paths[i]).kind = "missing"

\* every path the request makes createCommit inspect can be inspected
Inspectable(o) ==
  \/ o.empty
  \/ o.deleteIfNotExist
  \/ ~SomeMissing(o.files) /\ ~SomeMissing(o.deletedFiles)

\* the explicit base of the request, if it names a branch, exists at first
BaseExists(o) == o.baseSHA # 0 \/ o.baseBranch = "" \/ InitRefs[o.baseBranch] # 0

\* C5 as claimed: for every request that can be performed, whatever its other
\* options are, the first of two invocations against a target branch that
\* did not exist finishes by a successful createRef and each following one
\* by a successful updateRef.
C5_Original ==
  \A p \in Procs :
    (pc[p] = "done" /\ Performs(p) /\ Inspectable(opts[p]) /\ BaseExists(opts[p])
       /\ refsBefore[1][opts[p].branch] = 0 /\ ~RemoteFault(p))
      => /\ result[p].status = "returned"
         /\ EndedBy(p, IF p = 1 THEN "createRef" ELSE "updateRef")

\* the requests whose commit descends from the tip a first invocation left,
\* or whose update is forced
Repeatable(o) ==
  o.forcePush \/ (o.baseSHA = 0 /\ o.baseBranch = "" /\ ~o.noParent)

\* C5 (amended): for every request that has its required fields, something to
\* commit, inspectable paths and an existing base, and that either sets
\* forcePush or gives no explicit base and leaves omitParent unset: against a
\* target branch that did not exist, and with no remote fault, the first
\* invocation returns after a successful createRef and each repetition
\* returns after a successful updateRef, the branch pointing at its commit.
C5_IdempotentBranchCreation ==
  \A p \in Procs :
    (pc[p] = "done" /\ Performs(p) /\ Inspectable(opts[p]) /\ BaseExists(opts[p])
       /\ Repeatable(opts[p])
       /\ refsBefore[1][opts[p].branch] = 0 /\ ~RemoteFault(p))
      => /\ result[p].status = "returned"
         /\ result[p].sha = commit[p]
         /\ EndedBy(p, IF p = 1 THEN "createRef" ELSE "updateRef")
         /\ (\A q \in Procs : q > p => pc[q] = "idle")
              => refs[opts[p].branch] = commit[p]

\* C5 witness: the second invocation of a forced, parentless request has
\* returned after updateRef, the first after createRef
C5_Witness ==
  /\ pc[2] = "done"
  /\ opts[2].noParent /\ opts[2].forcePush
  /\ refsBefore[1][opts[1].branch] = 0
  /\ EndedBy(1, "createRef")
  /\ EndedBy(2, "updateRef")
  /\ result[2].status = "returned"

\* the error is the remote's "Reference does not exist"
RefAbsentSignature(e) == e.name = "RefNotExist"

\* C6: once the commit object is created, updateRef is the next call, in
\* every case; createRef is called if and only if that updateRef failed with
\* the "Reference does not exist" signature; any other failure of updateRef
\* ends the invocation with that same error value, createRef not called.
C6_RefUpsertGuard ==
  \A p \in Procs :
    \A i \in 1..Len(calls[p]) :
      LET c == calls[p][i]
          last == i = Len(calls[p])
      IN  /\ (c.op = "createCommit" /\ c.ok)
               => IF last THEN pc[p] = "updateRef"
                  ELSE /\ calls[p][i + 1].op = "updateRef"
                       /\ calls[p][i + 1].sha = c.sha
          /\ c.op = "updateRef"
               => /\ i > 1 /\ calls[p][i - 1].op = "createCommit"
                  /\ c.ok => last /\ pc[p] = "done" /\ result[p].status = "returned"
                  /\ (~c.ok /\ RefAbsentSignature(c.error))
                       => IF last THEN pc[p] = "createRef"
                          ELSE calls[p][i + 1].op = "createRef"
                  /\ (~c.ok /\ ~RefAbsentSignature(c.error))
                       => /\ last /\ pc[p] = "done"
                          /\ result[p] = Threw(c.error)
                          /\ ~Called(p, "createRef")
          /\ c.op = "createRef"
               => /\ i > 1 /\ calls[p][i - 1].op = "updateRef"
                  /\ ~calls[p][i - 1].ok
                  /\ RefAbsentSignature(calls[p][i - 1].error)
                  /\ c.sha = calls[p][i - 1].sha

\* C6 witness: updateRef was refused as not a fast forward and the invocation
\* has thrown that error without calling createRef
C6_Witness ==
  /\ pc[1] = "done"
  /\ Called(1, "updateRef")
  /\ ~Called(1, "createRef")
  /\ result[1] = Threw(NotFastForwardError)

\* invocation p gave no explicit base and its target branch was looked up
\* and found absent
TargetAbsent(p) ==
  /\ Performs(p)
  /\ opts[p].baseSHA = 0 /\ opts[p].baseBranch = ""
  /\ calls[p] # <<>>
  /\ calls[p][1].op = "getBranch" /\ calls[p][1].ok
  /\ calls[p][1].branch = opts[p].branch
  /\ refsBefore[p][opts[p].branch] = 0

\* C7 as claimed: with no explicit base and the target branch absent,
\* updateRef is not invoked at all in the invocation.
C7_Original ==
  \A p \in Procs : TargetAbsent(p) => ~Called(p, "updateRef")

\* what such an invocation calls when nothing fails
CreateBranchCalls(o) ==
  <<"getBranch", "getDefaultBranch">>
    \o (IF o.empty THEN <<>> ELSE <<"createTree">>)
    \o <<"createCommit", "updateRef", "createRef">>

\* C7 (amended): with no explicit base and the target branch absent, the
\* default branch is resolved as base and, the paths being inspectable and
\* the remote without fault, the tree and the commit are created, updateRef
\* is attempted first and fails with "Reference does not exist", and then
\* createRef is invoked and the invocation returns the new commit.
C7_CreateAfterFailedUpdate ==
  \A p \in Procs :
    TargetAbsent(p) =>
      /\ Resolved(p) => baseBranch[p] = RefBefore(p, DefaultBranchName)
      /\ Called(p, "createRef")
           => /\ Ops(p) = CreateBranchCalls(opts[p])
              /\ ~calls[p][Len(calls[p]) - 1].ok
              /\ RefAbsentSignature(calls[p][Len(calls[p]) - 1].error)
      /\ (pc[p] = "done" /\ Inspectable(opts[p]) /\ ~RemoteFault(p))
           => /\ Ops(p) = CreateBranchCalls(opts[p])
              /\ EndedBy(p, "createRef")
              /\ result[p] = ReturnedResult(commit[p])

\* C7 witness: a.txt added to the absent branch feat; createRef has succeeded
\* after the failed updateRef
C7_Witness ==
  /\ pc[1] = "done"
  /\ TargetAbsent(1)
  /\ opts[1].branch = "feat" /\ opts[1].files = <<"a.txt">>
  /\ opts[1].deletedFiles = <<>> /\ ~opts[1].empty
  /\ Ops(1) = <<"getBranch", "getDefaultBranch", "createTree", "createCommit",
                "updateRef", "createRef">>
  /\ result[1].status = "returned"

\* C8: the commit object is created with no parent when omitParent is set,
\* whatever the base; otherwise with exactly one parent, the commit SHA of
\* the base state the resolution priority gives.
C8_ParentLinkage ==
  \A p \in Procs :
    \A i \in 1..Len(calls[p]) :
      calls[p][i].op = "createCommit"
        => LET expected == IF opts[p].noParent THEN <<>>
                           ELSE <<ExpectedBase(p).target.oid>>
           IN  /\ calls[p][i].parents = expected
               /\ calls[p][i].ok => commits[calls[p][i].sha].parents = expected

\* C8 witness: omitParent set on an existing target branch: the commit made
\* has no parent
C8_Witness ==
  /\ opts[1].noParent
  /\ opts[1].branch = "main"
  /\ commit[1] # 0
  /\ commits[commit[1]].parents = <<>>

\* the commit invocation p made does not descend from the tip its target
\* branch had
NonFastForward(p) ==
  /\ commit[p] # 0
  /\ refsBefore[p][opts[p].branch] # 0
  /\ ~IsAncestor(commits, refsBefore[p][opts[p].branch], commit[p])

\* invocation p is the one that ran last
Latest(p) == \A q \in Procs : q > p => pc[q] = "idle"

\* C9: updateRef is called with force equal to forcePush.  With forcePush
\* unset, an update of an existing target branch to a commit that is not a
\* descendant of its tip is rejected, leaves the refs unchanged and makes the
\* invocation fail; with forcePush set, the same update moves the branch to
\* the new commit and the invocation returns it.
C9_ForceSemantics ==
  \A p \in Procs :
    /\ \A i \in 1..Len(calls[p]) :
         calls[p][i].op = "updateRef" => calls[p][i].force = opts[p].forcePush
    /\ (pc[p] = "done" /\ Called(p, "updateRef") /\ NonFastForward(p)
          /\ ~RemoteFault(p))
         => IF opts[p].forcePush
            THEN /\ result[p] = ReturnedResult(commit[p])
                 /\ Latest(p) => refs[opts[p].branch] = commit[p]
            ELSE /\ result[p] = Threw(NotFastForwardError)
                 /\ ~Called(p, "createRef")
                 /\ Latest(p) => refs = refsBefore[p]

\* C9 witness (rejected): forcePush unset, base SHA 1 under the tip of main
C9_Witness ==
  /\ pc[1] = "done"
  /\ ~opts[1].forcePush /\ opts[1].branch = "main" /\ opts[1].baseSHA = 1
  /\ NonFastForward(1)
  /\ result[1] = Threw(NotFastForwardError)
  /\ refs["main"] = 2

\* a forced update of the same kind has moved main to the new commit
C9_ForcedReached ==
  /\ pc[1] = "done"
  /\ opts[1].forcePush /\ opts[1].branch = "main" /\ opts[1].baseSHA = 1
  /\ NonFastForward(1)
  /\ refs["main"] = commit[1]

\* C10: with deleteMissingAsNoop unset and allowEmpty unset, if a path of
\* additions or deletions does not exist on disk, createTree, createCommit,
\* updateRef and createRef are never called, no ref changes and the
\* invocation fails: with the file-not-found error (ENOENT) whenever its base
\* was resolved, that is whenever it came to inspect the paths.
C10_MissingPathFails ==
  \A p \in Procs :
    (pc[p] # "idle" /\ ~opts[p].deleteIfNotExist /\ ~opts[p].empty
       /\ (SomeMissing(opts[p].files) \/ SomeMissing(opts[p].deletedFiles)))
      => /\ NoWrite(p)
         /\ pc[p] \in {"getBaseBranch", "getDefaultBranch", "getTreeSHA", "done"}
         /\ refs = refsBefore[p]
         /\ pc[p] = "done"
              => /\ result[p].status = "thrown"
                 /\ Resolved(p) => result[p] = Threw(ENOENTError)

\* C10 witness: a missing path among the deletions, after an addition that
\* exists: the invocation has thrown ENOENT
C10_Witness ==
  /\ pc[1] = "done"
  /\ ~opts[1].deleteIfNotExist /\ ~opts[1].empty
  /\ opts[1].files = <<"a.txt">> /\ opts[1].deletedFiles = <<"gone.txt">>
  /\ Resolved(1)
  /\ result[1] = Threw(ENOENTError)

\* ---- the entries of the tree

\* the paths of a request in the order getTreeSHA visits them
RequestPaths(o) == o.files \o o.deletedFiles

\* the createTree calls of invocation p (positions in its call log)
CreateTreeCalls(p) == {i \in 1..Len(calls[p]) : calls[p][i].op = "createTree"}

\* invocation p has left getTreeSHA
PastTree(p) == Resolved(p) /\ pc[p] # "getTreeSHA"

\* every path of the list is a regular file or does not exist
FilesOrMissing(paths) ==
  \A k \in 1..Len(paths) : FS(paths[k]).kind \in {"file", "missing"}

\* C11: with deleteMissingAsNoop set, a path that does not exist on disk,
\* among the additions or the deletions, raises no error (no invocation ends
\* with the file-not-found error) and gives createTree a deletion marker (sha
\* null, no content) of mode 100644 and kind blob at the path's place; when
\* the request names only regular files and missing paths, the invocation
\* that has its base goes on to createTree.
C11_MissingPathIsDeletionMarker ==
  \A p \in Procs :
    LET o == opts[p]
        paths == RequestPaths(o)
    IN  (pc[p] # "idle" /\ o.deleteIfNotExist)
          => /\ result[p].error.code # "ENOENT"
             /\ \A i \in CreateTreeCalls(p) :
                  /\ Len(calls[p][i].entries) = Len(paths)
                  /\ \A k \in 1..Len(paths) :
                       FS(paths[k]).kind = "missing"
                         => calls[p][i].entries[k]
                              = File(paths[k], "undefined", "null", "100644", "blob")
             /\ (PastTree(p) /\ ~o.empty /\ FilesOrMissing(paths))
                  => Called(p, "createTree")

\* C11 witness: a missing path added and a missing path deleted, both sent to
\* createTree as deletion markers, and the commit made
C11_Witness ==
  /\ pc[1] = "done" /\ result[1].status = "returned"
  /\ opts[1].deleteIfNotExist /\ ~opts[1].empty
  /\ opts[1].files = <<"gone.txt">> /\ opts[1].deletedFiles = <<"gone.txt">>
  /\ \E i \in CreateTreeCalls(1) :
       calls[1][i].entries
         = <<File("gone.txt", "undefined", "null", "100644", "blob"),
             File("gone.txt", "undefined", "null", "100644", "blob")>>

\* ---- the SHA of a submodule

\* HEAD holds a symbolic ref
IsSymbolic(head) ==
  head.exists /\ Len(head.text) >= 3 /\ head.text[1] = "ref:" /\ head.text[2] = " "

\* the line of packed-refs is that of ref: a SHA, a space, the very name
NamesRef(line, ref) ==
  Len(line) >= 3 /\ line[1] # "#" /\ line[2] = " " /\ line[3] = ref

\* C12: resolveGitHEAD returns, when HEAD does not start with the symbolic-ref
\* prefix, the trimmed content of HEAD; when HEAD is a symbolic ref whose
\* loose file exists, the trimmed content of that file, whatever packed-refs
\* lists; when the loose file is absent and packed-refs can be read, the SHA
\* of a line of packed-refs whose ref name is exactly the ref (comment and
\* blank lines skipped, names that only begin or end like it never taken),
\* and it fails if there is no such line.
C12_SubmoduleSHAResolution ==
  probe.applied =>
    LET gitDir == probe.gitDir
        out == probe.head
        lines == gitDir.packed.lines
    IN  /\ (gitDir.HEAD.exists /\ ~IsSymbolic(gitDir.HEAD))
             => out = ReturnedSHA(gitDir.HEAD.text[1])
        /\ (IsSymbolic(gitDir.HEAD) /\ gitDir.loose.exists)
             => out = ReturnedSHA(gitDir.loose.text[1])
        /\ (IsSymbolic(gitDir.HEAD) /\ ~gitDir.loose.exists /\ gitDir.packed.exists)
             => /\ out.ok <=> \E k \in 1..Len(lines) : NamesRef(lines[k], MainRef)
                /\ out.ok => \E k \in 1..Len(lines) :
                               NamesRef(lines[k], MainRef) /\ out.sha = lines[k][1]

\* C12 witness: no loose file, and in packed-refs a line of refs/heads/main2
\* before the line of refs/heads/main: the SHA of the latter is returned
C12_Witness ==
  /\ probe.applied
  /\ probe.gitDir
       = GitDir(SymbolicHEAD, Absent,
                PackedRefs(<<<<"4444", " ", "refs/heads/main2">>,
                             <<"3333", " ", MainRef>>>>))
  /\ probe.head = ReturnedSHA("3333")

\* the git directory the .git file of a directory names
GitDirOf(filePath) ==
  GitDirAt(pathResolve(filePath, matchGitdir(trim(FS(filePath).dotGit.text)).dir))

\* the path is a submodule mount point: a directory whose .git is a file that
\* holds a gitdir line
IsSubmodule(filePath) ==
  /\ FS(filePath).kind = "dir"
  /\ FS(filePath).dotGit.kind = "file"
  /\ matchGitdir(trim(FS(filePath).dotGit.text)).matched

\* a submodule mount point whose ref chain cannot be resolved: HEAD is a
\* symbolic ref, its loose file is absent, and packed-refs is absent or has
\* no line of that ref
Unresolvable(filePath) ==
  /\ IsSubmodule(filePath)
  /\ IsSymbolic(GitDirOf(filePath).HEAD)
  /\ ~GitDirOf(filePath).loose.exists
  /\ \/ ~GitDirOf(filePath).packed.exists
     \/ \A k \in 1..Len(GitDirOf(filePath).packed.lines) :
          ~NamesRef(GitDirOf(filePath).packed.lines[k], MainRef)

SomeUnresolvable(paths) == \E k \in 1..Len(paths) : Unresolvable(paths[k])

\* C13 (as claimed): whenever a requested path is a submodule mount point with
\* an unresolvable ref chain (allowEmpty unset), for deleteMissingAsNoop false
\* and true alike, the invocation makes no remote write, sends no tree entry
\* for any path, and ends by failing.
C13_UnresolvableSubmoduleIsFatal ==
  \A p \in Procs :
    (pc[p] # "idle" /\ ~opts[p].empty /\ SomeUnresolvable(RequestPaths(opts[p])))
      => /\ NoWrite(p)
         /\ CreateTreeCalls(p) = {}
         /\ pc[p] = "done" => result[p].status = "thrown"

\* the divergence reached: deleteIfNotExist set, the submodule without
\* packed-refs sent to createTree as the deletion of a blob, the commit made
C13_Swallowed ==
  /\ pc[1] = "done" /\ result[1].status = "returned"
  /\ opts[1].deleteIfNotExist
  /\ opts[1].files = <<"subnopack">> /\ opts[1].deletedFiles = <<>>
  /\ \E i \in CreateTreeCalls(1) :
       calls[1][i].entries
         = <<File("subnopack", "undefined", "null", "100644", "blob")>>

\* the three conditions of the TreeEntry invariant
HasContent(entry) == entry.content # "undefined"

IsDeletion(entry) == entry.sha = "null"

IsBareObject(entry) == entry.type \in {"tree", "commit"} /\ ~HasContent(entry)

ExactlyOne(a, b, c) ==
  (a /\ ~b /\ ~c) \/ (~a /\ b /\ ~c) \/ (~a /\ ~b /\ c)

\* C14 (as claimed): every entry passed to createTree, built from an addition
\* or a deletion, of a regular file, a plain directory, a submodule mount
\* point or a missing path, satisfies exactly one of: content present;
\* deletion marker; kind tree or commit with content absent.
C14_Original ==
  \A p \in Procs : \A i \in CreateTreeCalls(p) :
    \A k \in 1..Len(calls[p][i].entries) :
      LET entry == calls[p][i].entries[k]
      IN  ExactlyOne(HasContent(entry), IsDeletion(entry), IsBareObject(entry))

\* C14 (amended): every entry passed to createTree satisfies at least one of
\* the three conditions; an entry with content is neither a deletion marker
\* nor of kind tree or commit, so that a tree or commit entry never carries
\* inline content; an entry is both a deletion marker and of kind tree or
\* commit exactly when it is the deletion of a directory (plain or submodule
\* mount point) that was inspected without error.
C14_TreeEntryInvariant ==
  \A p \in Procs : \A i \in CreateTreeCalls(p) :
    \A k \in 1..Len(calls[p][i].entries) :
      LET entry == calls[p][i].entries[k]
          filePath == RequestPaths(opts[p])[k]
      IN  /\ HasContent(entry) \/ IsDeletion(entry) \/ IsBareObject(entry)
          /\ HasContent(entry) => ~IsDeletion(entry) /\ ~IsBareObject(entry)
          /\ entry.type \in {"tree", "commit"} => ~HasContent(entry)
          /\ (IsDeletion(entry) /\ IsBareObject(entry))
               <=> /\ k > Len(opts[p].files)
                   /\ FS(filePath).kind = "dir"
                   /\ ~Unresolvable(filePath)

\* C14 witness: a plain directory deleted and a regular file added: the first
\* entry has content only, the second is a deletion marker of kind tree
C14_Witness ==
  /\ opts[1].files = <<"a.txt">> /\ opts[1].deletedFiles = <<"docs">>
  /\ \E i \in CreateTreeCalls(1) :
       calls[1][i].entries
         = <<File("a.txt", "hello", "undefined", "100644", "blob"),
             File("docs", "undefined", "null", "040000", "tree")>>

\* the entry an addition of an existing path is to give, by the kind of the
\* path: a submodule link with the resolved SHA, a directory, or a blob with
\* the content of the file and the mode of its stat
ExpectedAddition(filePath) ==
  IF IsSubmodule(filePath)
  THEN File(filePath, "undefined", resolveGitHEAD(GitDirOf(filePath)).sha,
            "160000", "commit")
  ELSE IF FS(filePath).kind = "dir"
  THEN File(filePath, "undefined", "undefined", "040000", "tree")
  ELSE File(filePath, FS(filePath).content, "undefined",
            getFileMode(FS(filePath).mode), "blob")

\* C15 (as claimed): for each addition path that exists, the entry built is a
\* submodule link (mode 160000, kind commit) with the resolved commit SHA and
\* no content if and only if the path is a directory whose .git child is a
\* regular file holding a gitdir line; a directory entry (mode 040000, kind
\* tree) without content for any other directory; otherwise a blob entry with
\* the content of the file and the mode mapped from its stat.
C15_AdditionClassification ==
  \A p \in Procs : \A i \in CreateTreeCalls(p) :
    \A k \in 1..Len(opts[p].files) :
      LET entry == calls[p][i].entries[k]
          filePath == opts[p].files[k]
      IN  FS(filePath).kind # "missing"
            => /\ (entry.mode = "160000" /\ entry.type = "commit")
                    <=> IsSubmodule(filePath)
               /\ entry = ExpectedAddition(filePath)

\* the divergence reached: the submodule mount point without packed-refs,
\* added with deleteIfNotExist, is sent as the deletion of a blob
C15_SubmoduleAddedAsDeletion ==
  /\ opts[1].deleteIfNotExist
  /\ opts[1].files = <<"subnopack">>
  /\ IsSubmodule("subnopack")
  /\ \E i \in CreateTreeCalls(1) :
       /\ calls[1][i].ok
       /\ calls[1][i].entries[1]
            = File("subnopack", "undefined", "null", "100644", "blob")

\* C16: for each deletion path that exists on disk, the entry sent to
\* createTree has the mode and kind the same path gets as an addition (the
\* same inspection), and is always a deletion marker: sha null and no
\* content, so that neither the content of a file nor the resolved SHA of a
\* submodule is sent for a deletion path.
C16_DeletionEntries ==
  \A p \in Procs : \A i \in CreateTreeCalls(p) :
    \A k \in 1..Len(opts[p].deletedFiles) :
      LET entry == calls[p][i].entries[Len(opts[p].files) + k]
          filePath == opts[p].deletedFiles[k]
          added == createTreeFile(opts[p], filePath).file
      IN  FS(filePath).kind # "missing"
            => /\ entry.path = filePath
               /\ entry.mode = added.mode /\ entry.type = added.type
               /\ entry.sha = "null"
               /\ entry.content = "undefined"

\* C16 witness: a regular file and a submodule mount point deleted: blob and
\* commit entries, both with sha null and without content
C16_Witness ==
  /\ opts[1].files = <<>> /\ opts[1].deletedFiles = <<"a.txt", "sub">>
  /\ \E i \in CreateTreeCalls(1) :
       /\ calls[1][i].ok
       /\ calls[1][i].entries
            = <<File("a.txt", "undefined", "null", "100644", "blob"),
                File("sub", "undefined", "null", "160000", "commit")>>

\* ---- the required fields

RequiredKeys == {"owner", "repo", "branch", "message"}

\* C17: for every request that is not a no-op, if owner, repo, branch or
\* message is empty or missing, createCommit fails with the error
\* "<key> is required" of one of the missing keys, and has made no remote
\* call, read or write.
C17_RequiredFields ==
  \A p \in Procs :
    (pc[p] # "idle" /\ ~NothingToCommit(opts[p]) /\ ~HasRequired(opts[p]))
      => /\ pc[p] = "done"
         /\ result[p].status = "thrown"
         /\ \E key \in RequiredKeys :
              opts[p][key] = "" /\ result[p].error = RequiredError(key)
         /\ calls[p] = <<>>
         /\ refs = InitRefs /\ commits = InitCommits /\ trees = InitTrees

\* C17 witness: a request with a file to add and no message has failed with
\* "message is required" without a call
C17_Witness ==
  /\ pc[1] = "done"
  /\ opts[1].files = <<"a.txt">>
  /\ opts[1].owner = "o" /\ opts[1].repo = "r" /\ opts[1].branch = "main"
  /\ opts[1].message = ""
  /\ result[1] = Threw(RequiredError("message"))
  /\ calls[1] = <<>>

\* ---- the mode mapping

\* the file type of a stat mode (S_IFMT, octal 170000) and the types of POSIX
S_IFMT(mode) == mode - (mode % 4096) - 65536 * (mode \div 65536)

S_IFREG == 32768

S_IFDIR == 16384

S_IFLNK == 40960

GitLink == 57344

\* one of the execute bits of owner, group and others (octal 100, 010, 001)
\* is set
AnyExecuteBit(mode) ==
  \/ (mode \div 64) % 2 = 1
  \/ (mode \div 8) % 2 = 1
  \/ mode % 2 = 1

\* C18: getFileMode maps, for every mode value, a regular file with one of
\* the three execute bits to 100755, a regular file with none to 100644, a
\* directory to 040000, the symlink type to 120000, and every type it does
\* not recognise (all but those three and the gitlink type 160000) to
\* 100644; it always returns one of the five modes.
C18_ModeMapping ==
  probe.applied =>
    LET mode == probe.mode
        out == probe.fileMode
    IN  /\ (S_IFMT(mode) = S_IFREG /\ AnyExecuteBit(mode)) => out = "100755"
        /\ (S_IFMT(mode) = S_IFREG /\ ~AnyExecuteBit(mode)) => out = "100644"
        /\ S_IFMT(mode) = S_IFDIR => out = "040000"
        /\ S_IFMT(mode) = S_IFLNK => out = "120000"
        /\ S_IFMT(mode) \notin {S_IFREG, S_IFDIR, S_IFLNK, GitLink} => out = "100644"
        /\ out \in {"100644", "100755", "040000", "160000", "120000"}

\* C18 witness: a regular file executable by its group only (octal 100010)
\* is mapped to 100755
C18_Witness ==
  /\ probe.applied
  /\ probe.mode = 32776
  /\ probe.fileMode = "100755"

\* ---- the protocol of the remote writes

\* the remote writes of invocation p, in order
Writes(p) == SelectSeq(calls[p], LAMBDA call : call.op \in WriteOps)

WriteNames(p) == [i \in 1..Len(Writes(p)) |-> Writes(p)[i].op]

IsPrefix(s, t) == Len(s) <= Len(t) /\ s = SubSeq(t, 1, Len(s))

\* the writes a request leads to, in order: createTree is skipped for an
\* empty commit
WriteProtocol(o) ==
  IF o.empty THEN <<"createCommit", "updateRef", "createRef">>
  ELSE <<"createTree", "createCommit", "updateRef", "createRef">>

\* C19: in every invocation the remote writes made so far are a prefix of
\* createTree (only when allowEmpty is unset), createCommit, updateRef,
\* createRef, so that each is called at most once; a write is followed by the
\* next only once it has returned (createRef follows an updateRef that was
\* rejected, every other write follows one that succeeded); createCommit
\* receives the tree SHA createTree returned, or the tree of the base when
\* createTree is skipped; updateRef and createRef receive the commit SHA
\* createCommit returned.
C19_RemoteWriteProtocol ==
  \A p \in Procs :
    LET w == Writes(p)
    IN  /\ IsPrefix(WriteNames(p), WriteProtocol(opts[p]))
        /\ \A i \in 1..Len(w) :
             /\ i < Len(w) => (w[i].ok <=> w[i].op # "updateRef")
             /\ (w[i].op = "createCommit" /\ i > 1)
                  => w[i - 1].ok /\ w[i].tree = w[i - 1].tree
             /\ (w[i].op = "createCommit" /\ i = 1)
                  => w[i].tree = baseBranch[p].target.tree.oid
             /\ w[i].op \in {"updateRef", "createRef"}
                  => \E j \in 1..(i - 1) :
                       /\ w[j].op = "createCommit" /\ w[j].ok
                       /\ w[i].sha = w[j].sha /\ w[j].sha = commit[p]

\* C19 witness: the four writes in order, the tree and the commit passed on,
\* the branch created with the commit
C19_Witness ==
  /\ pc[1] = "done" /\ result[1].status = "returned"
  /\ WriteNames(1) = <<"createTree", "createCommit", "updateRef", "createRef">>
  /\ Writes(1)[2].tree = Writes(1)[1].tree /\ Writes(1)[1].tree = TreeSHA(Len(trees))
  /\ Writes(1)[4].sha = Writes(1)[2].sha /\ Writes(1)[2].sha = Len(commits)
  /\ refs[opts[1].branch] = Writes(1)[2].sha

\* ---- concurrent invocations

\* a ref write of invocation p was rejected by the remote: an update that is
\* no fast forward, or the creation of a ref that exists
RefWriteRejected(p) ==
  \E i \in 1..Len(calls[p]) :
    /\ calls[p][i].op \in {"updateRef", "createRef"}
    /\ calls[p][i].error \in {NotFastForwardError, RefExistsError}

\* C20: for every interleaving of two invocations on the same target branch,
\* both without forcePush, every invocation that has returned a Result has
\* its commit equal to or an ancestor of the tip of the branch, from then on
\* and so in the final state; an invocation one of whose ref writes the
\* remote rejected has ended by failing, not with a Result.
C20_NoLostUpdate ==
  \A p \in ConcProcs :
    /\ result[p].status = "returned"
         => /\ result[p].sha = commit[p]
            /\ refs[opts[p].branch] # 0
            /\ IsAncestor(commits, result[p].sha, refs[opts[p].branch])
    /\ RefWriteRejected(p)
         => pc[p] = "done" /\ result[p].status = "thrown"

\* C20 witness: both invocations built their commit on the same tip of main
\* before either wrote the ref; the second moved main, the first was
\* rejected as no fast forward and failed
C20_Witness ==
  /\ pc[1] = "done" /\ pc[2] = "done"
  /\ opts[1].branch = "main" /\ opts[2].branch = "main"
  /\ result[2] = ReturnedResult(commit[2])
  /\ result[1] = Threw(NotFastForwardError)
  /\ commit[1] # 0 /\ commit[2] # 0
  /\ commits[commit[1]].parents = <<2>> /\ commits[commit[2]].parents = <<2>>
  /\ refs["main"] = commit[2]

\* ---- the frame of the refs

\* the refs as invocation p left them: those the next invocation started
\* from, or the present ones if p is the last made
RefsAfter(p) ==
  IF p + 1 \in Procs /\ pc[p + 1] # "idle" THEN refsBefore[p + 1] ELSE refs

\* the last call of invocation p failed
LastCallFailed(p) == calls[p] # <<>> /\ ~calls[p][Len(calls[p])].ok

\* C21: an invocation changes a ref only by its final ref write and only the
\* target branch: as long as it has not returned a Result, and for good if it
\* has failed (at base resolution, entry building, createTree, createCommit,
\* at updateRef with another error than "reference does not exist", or at
\* createRef), every ref is as it was before the invocation, and the
\* invocation that ended on a failed call has thrown that call's error; a
\* Result is returned only after a successful updateRef or createRef, its SHA
\* is the commit this invocation created, and then the target branch, and no
\* other, points to that commit.
C21_RefFrame ==
  \A p \in Procs :
    pc[p] # "idle"
      => /\ \A b \in Branches :
              RefsAfter(p)[b]
                = IF result[p].status = "returned" /\ b = opts[p].branch
                  THEN commit[p]
                  ELSE refsBefore[p][b]
         /\ (pc[p] = "done" /\ LastCallFailed(p))
              => result[p] = Threw(calls[p][Len(calls[p])].error)
         /\ result[p].status = "returned"
              => /\ EndedBy(p, "updateRef") \/ EndedBy(p, "createRef")
                 /\ result[p].sha = commit[p]
                 /\ commit[p] > Len(InitCommits)
                 /\ \A q \in Procs : q # p => commit[q] # commit[p]
                 /\ \E i \in 1..Len(calls[p]) :
                      /\ calls[p][i].op = "createCommit" /\ calls[p][i].ok
                      /\ calls[p][i].sha = commit[p]

\* C21 witness: the branch did not exist, updateRef was rejected for that,
\* createRef failed: the commit exists, no ref has changed, the invocation has
\* thrown the error of createRef
C21_Witness ==
  /\ pc[1] = "done"
  /\ LastCallFailed(1) /\ Ops(1)[Len(calls[1])] = "createRef"
  /\ result[1] = Threw(ForbiddenError)
  /\ commit[1] = Len(commits) /\ commit[1] > Len(InitCommits)
  /\ refs = InitRefs

\* ---- the shape of the entry list

\* the entry of the k-th path of request o, from what is on disk at the path
\* located under the root directory: content, mode and kind of the object
\* there, the path as the caller gave it
ExpectedEntry(o, k) ==
  LET filePath == RequestPaths(o)[k]
      stats == FS(pathJoin(o.rootDir, filePath))
      deleted == k > Len(o.files)
  IN  IF stats.kind = "missing"
      THEN File(filePath, "undefined", "null", "100644", "blob")
      ELSE IF stats.kind = "dir"
      THEN File(filePath, "undefined",
                IF deleted THEN "null" ELSE "undefined", "040000", "tree")
      ELSE File(filePath,
                IF deleted THEN "undefined" ELSE stats.content,
                IF deleted THEN "null" ELSE "undefined",
                getFileMode(stats.mode), "blob")

\* C22: createTree is called only when allowEmpty is unset, and its entry
\* list has one entry per addition path in the caller's order, then one per
\* deletion path in the caller's order; the path of each entry is the
\* caller's path verbatim, while content, mode and kind are those of the
\* object at that path under the root directory.
C22_EntryListShape ==
  \A p \in Procs : \A i \in CreateTreeCalls(p) :
    LET o == opts[p]
        entries == calls[p][i].entries
    IN  /\ ~o.empty
        /\ Len(entries) = Len(o.files) + Len(o.deletedFiles)
        /\ \A k \in 1..Len(entries) :
             /\ entries[k].path = RequestPaths(o)[k]
             /\ entries[k] = ExpectedEntry(o, k)

\* C22 witness: with root directory "work", gone.txt added and a.txt deleted:
\* the entries carry the caller's paths, in that order, with the content and
\* the mode of work/gone.txt and the mode of work/a.txt
C22_Witness ==
  /\ opts[1].rootDir = "work"
  /\ opts[1].files = <<"gone.txt">> /\ opts[1].deletedFiles = <<"a.txt">>
  /\ \E i \in CreateTreeCalls(1) :
       /\ calls[1][i].ok
       /\ calls[1][i].entries
            = <<File("gone.txt", "kept", "undefined", "100644", "blob"),
                File("a.txt", "undefined", "null", "100755", "blob")>>

\* ---- allowEmpty and the file changes

\* the createCommit calls of invocation p (positions in its call log)
CreateCommitCalls(p) == {i \in 1..Len(calls[p]) : calls[p][i].op = "createCommit"}

\* C23: whenever allowEmpty (empty) is set, whatever the additions and the
\* deletions, createTree is not called, the tree of the commit is the tree of
\* the resolved base, and no path is inspected: the invocation fails by a
\* failed remote call only, never by what is, or is not, on disk.
C23_AllowEmptyOverridesFiles ==
  \A p \in Procs :
    (pc[p] # "idle" /\ opts[p].empty)
      => /\ CreateTreeCalls(p) = {}
         /\ PastTree(p) /\ result[p].status # "thrown"
              => treeSHA[p] = baseBranch[p].target.tree.oid
         /\ \A i \in CreateCommitCalls(p) :
              calls[p][i].tree = baseBranch[p].target.tree.oid
         /\ result[p].status = "returned"
              => commits[commit[p]].tree = baseBranch[p].target.tree.oid
         /\ result[p].status = "thrown"
              => /\ LastCallFailed(p)
                 /\ result[p] = Threw(calls[p][Len(calls[p])].error)
                 /\ result[p].error.name # "ENOENT"

\* C23 witness: an empty commit whose only addition does not exist on disk,
\* missing paths not tolerated, is made on the tree of the base
C23_Witness ==
  /\ opts[1].empty /\ ~opts[1].deleteIfNotExist
  /\ opts[1].branch = DefaultBranchName
  /\ opts[1].files = <<"gone.txt">> /\ opts[1].deletedFiles = <<"subnoref">>
  /\ result[1].status = "returned"
  /\ CreateTreeCalls(1) = {}
  /\ commits[commit[1]].tree = baseBranch[1].target.tree.oid
  /\ commits[commit[1]].tree = commits[InitRefs[opts[1].branch]].tree

\* ---- the base tree of createTree

\* the tree object of SHA sha
TreeAt(sha) == trees[sha - TreeSHA(0)]

\* C24: with allowEmpty unset, createTree is called with the tree of the
\* resolved base as base tree if omitParent (noParent) is unset and with no
\* base tree (0) if it is set, so the tree made for a root commit holds the
\* entries of the request and nothing else; with omitParent and allowEmpty
\* both set, the commit has no parent and its tree is the tree of the base.
C24_BaseTreeSelection ==
  \A p \in Procs :
    LET o == opts[p]
        base == baseBranch[p].target.tree.oid
    IN  /\ \A i \in CreateTreeCalls(p) :
             /\ ~o.empty
             /\ calls[p][i].base_tree = IF o.noParent THEN 0 ELSE base
             /\ ~o.noParent => calls[p][i].base_tree > TreeSHA(0)
             /\ calls[p][i].ok
                  => TreeAt(calls[p][i].tree)
                       = [base_tree |-> IF o.noParent THEN 0 ELSE base,
                          tree |-> calls[p][i].entries]
        /\ \A i \in CreateCommitCalls(p) :
             (calls[p][i].ok /\ o.noParent)
               => /\ commits[calls[p][i].sha].parents = <<>>
                  /\ o.empty => commits[calls[p][i].sha].tree = base
                  /\ ~o.empty
                       => /\ commits[calls[p][i].sha].tree = treeSHA[p]
                          /\ TreeAt(treeSHA[p]).base_tree = 0

\* C24 witness: a root commit with one addition: its tree is created without
\* base tree and holds that one entry
C24_Witness ==
  /\ opts[1].noParent /\ ~opts[1].empty
  /\ opts[1].files = <<"a.txt">> /\ opts[1].deletedFiles = <<>>
  /\ result[1].status = "returned"
  /\ baseBranch[1].target.tree.oid > TreeSHA(0)
  /\ commits[commit[1]].parents = <<>>
  /\ TreeAt(commits[commit[1]].tree).base_tree = 0
  /\ Len(TreeAt(commits[commit[1]].tree).tree) = 1

====
